---- MODULE Spec2Model ----
(***************************************************************************)
(* Model of the rule-based quality checker of the patent disclosure        *)
(* assistant (js/quality-checker.js, class QualityChecker).                *)
(*                                                                         *)
(* JavaScript values are tagged records of one shape, so that a field of a *)
(* DocumentRecord may hold undefined, null, a string, a number, an array   *)
(* or an object and the predicates see what the JS operators see.  A       *)
(* string is kept as its sequence of runs of characters of one class:      *)
(* "ws" (white space, removed by trim), "bmp" (one UTF-16 code unit) and   *)
(* "astral" (outside the Basic Multilingual Plane: a surrogate pair, two   *)
(* UTF-16 code units).                                                     *)
(***************************************************************************)
EXTENDS Integers, Sequences, FiniteSets, TLC

\* ------------------------------------------------------------------ bounds
\* number of single-field edits the caller makes to a starting record
MaxEdits == 1
\* white space put before and after a padded string value
MaxPad == 1

\* --------------------------------------------------------------- JS values
JsVal(t, s, n, b) == [t |-> t, s |-> s, n |-> n, b |-> b]
Undefined == JsVal("undefined", <<>>, 0, FALSE)
Null == JsVal("null", <<>>, 0, FALSE)
Obj == JsVal("object", <<>>, 0, FALSE)
Str(runs) == JsVal("string", runs, 0, FALSE)
Num(n) == JsVal("number", <<>>, n, FALSE)
Arr(n) == JsVal("array", <<>>, n, FALSE)
Bool(b) == JsVal("boolean", <<>>, 0, b)

\* data.f : the value of a property, undefined when the record has none
Get(data, f) == IF f \in DOMAIN data THEN data[f] ELSE Undefined

\* the truthiness JS applies in `if (isValid)` and in `a && b`
ToBoolean(v) ==
    CASE v.t = "undefined" -> FALSE
      [] v.t = "null" -> FALSE
      [] v.t = "string" -> v.s # <<>>
      [] v.t = "number" -> v.n # 0
      [] v.t = "boolean" -> v.b
      [] OTHER -> TRUE

\* a && b : the left operand when it is falsy, the right one otherwise
JsAnd(a, b) == IF ToBoolean(a) THEN b ELSE a

\* UTF-16 code units of one character of a class
Units(c) == IF c = "astral" THEN 2 ELSE 1

RECURSIVE StrLength(_)
\* String.prototype.length : the number of UTF-16 code units
StrLength(runs) ==
    IF runs = <<>> THEN 0
    ELSE Head(runs).k * Units(Head(runs).c) + StrLength(Tail(runs))

RECURSIVE TrimStart(_)
TrimStart(runs) ==
    IF runs = <<>> THEN <<>>
    ELSE IF Head(runs).c = "ws" THEN TrimStart(Tail(runs)) ELSE runs

RECURSIVE TrimEnd(_)
TrimEnd(runs) ==
    IF runs = <<>> THEN <<>>
    ELSE IF runs[Len(runs)].c = "ws" THEN TrimEnd(SubSeq(runs, 1, Len(runs) - 1))
    ELSE runs

\* mutant of Trim: the string is measured as it is
TrimNothing(runs) == runs

\* String.prototype.trim : white space removed at both ends
Trim(runs) == TrimEnd(TrimStart(runs))

\* ------------------------------------------------------------ rule registry
\* One rule object of initCheckRules.  The check closure is kept as the
\* comparison it makes: op "trimGt" is  data[f] && data[f].trim().length > n,
\* op "trimGe" is  data[f] && data[f].trim().length >= n,  and op "arrayGe"
\* is  Array.isArray(data[f]) && data[f].length >= n.
Rule(id, name, description, op, n, severity, suggestion) ==
    [id |-> id, name |-> name, description |-> description,
     check |-> [op |-> op, field |-> id, n |-> n],
     severity |-> severity, suggestion |-> suggestion]

\* mutant of basicInfoRules: the inventor rule is given severity warning
basicInfoRulesInventorWarning ==
    << Rule("title", "Document title", "title is filled in",
            "trimGt", 0, "error", "fill in the document title"),
       Rule("technicalField", "Technical field", "technical field is specific",
            "trimGe", 10, "warning", "technical field needs at least 10 characters"),
       Rule("inventor", "Inventor", "inventor is complete",
            "trimGt", 0, "warning", "fill in the inventor") >>

\* the rules of category basicInfo
basicInfoRules ==
    << Rule("title", "Document title", "title is filled in",
            "trimGt", 0, "error", "fill in the document title"),
       Rule("technicalField", "Technical field", "technical field is specific",
            "trimGe", 10, "warning", "technical field needs at least 10 characters"),
       Rule("inventor", "Inventor", "inventor is complete",
            "trimGt", 0, "error", "fill in the inventor") >>

\* the rules of category backgroundTech
backgroundTechRules ==
    << Rule("backgroundTechnology", "Background technology", "background is detailed",
            "trimGe", 50, "warning", "background needs at least 50 characters"),
       Rule("currentProblems", "Current problems", "problems of the prior art are named",
            "trimGe", 30, "error", "problems need at least 30 characters") >>

\* the rules of category technicalSolution
technicalSolutionRules ==
    << Rule("technicalProblem", "Technical problem", "problem to solve is clear",
            "trimGe", 20, "error", "technical problem needs at least 20 characters"),
       Rule("technicalSolution", "Technical solution", "solution is detailed and feasible",
            "trimGe", 100, "error", "technical solution needs at least 100 characters"),
       Rule("keyFeatures", "Key features", "key features are listed",
            "arrayGe", 3, "warning", "list at least 3 key features") >>

\* the rules of category technicalEffects
technicalEffectsRules ==
    << Rule("beneficialEffects", "Beneficial effects", "beneficial effects are described",
            "trimGe", 30, "error", "beneficial effects need at least 30 characters"),
       Rule("performanceData", "Performance data", "performance data is given",
            "trimGt", 0, "info", "give concrete performance data") >>

\* mutant of implementationRules: the rule carries the id of the first rule
implementationRulesTitleAgain ==
    << Rule("title", "Embodiment", "embodiment is described clearly",
            "trimGe", 50, "warning", "embodiment needs at least 50 characters") >>

\* the rules of category implementation
implementationRules ==
    << Rule("embodimentDescription", "Embodiment", "embodiment is described clearly",
            "trimGe", 50, "warning", "embodiment needs at least 50 characters") >>

\* mutant of initCheckRules: the implementation category has lost its rule
initCheckRulesShort ==
    << [key |-> "basicInfo", value |-> basicInfoRules],
       [key |-> "backgroundTech", value |-> backgroundTechRules],
       [key |-> "technicalSolution", value |-> technicalSolutionRules],
       [key |-> "technicalEffects", value |-> technicalEffectsRules],
       [key |-> "implementation", value |-> << >>] >>

\* initCheckRules() : the object of five categories, in insertion order, each
\* an array of rules (an object is kept as the sequence of its key/value
\* entries, which is the order Object.keys gives)
initCheckRules ==
    << [key |-> "basicInfo", value |-> basicInfoRules],
       [key |-> "backgroundTech", value |-> backgroundTechRules],
       [key |-> "technicalSolution", value |-> technicalSolutionRules],
       [key |-> "technicalEffects", value |-> technicalEffectsRules],
       [key |-> "implementation", value |-> implementationRules] >>

\* Object.keys(obj)
ObjectKeys(obj) == [i \in 1..Len(obj) |-> obj[i].key]

\* obj[key]
Prop(obj, key) == obj[CHOOSE i \in 1..Len(obj) : obj[i].key = key].value

\* a TypeError raised by the closure
TypeError == JsVal("throw", <<>>, 0, FALSE)

\* v.trim().length <op> n, for a truthy v: a string has the method, any other
\* value (a number, an array, an object, true) has not and the call raises
TrimCompare(v, op, n) ==
    IF v.t # "string" THEN TypeError
    ELSE IF op = "trimGt" THEN Bool(StrLength(Trim(v.s)) > n)
    ELSE Bool(StrLength(Trim(v.s)) >= n)

\* mutant of RuleCheck: keyFeatures is measured without Array.isArray
RuleCheckNoIsArray(rule, data) ==
    LET v == Get(data, rule.check.field) IN
    CASE rule.check.op \in {"trimGt", "trimGe"} ->
           JsAnd(v, TrimCompare(v, rule.check.op, rule.check.n))
      [] rule.check.op = "arrayGe" ->
           IF v.t \in {"undefined", "null"} THEN TypeError
           ELSE IF v.t = "array" THEN Bool(v.n >= rule.check.n)
           ELSE IF v.t = "string" THEN Bool(StrLength(v.s) >= rule.check.n)
           ELSE Bool(FALSE)

\* mutant of RuleCheck: the length has to exceed the threshold
RuleCheckStrict(rule, data) ==
    LET v == Get(data, rule.check.field) IN
    CASE rule.check.op \in {"trimGt", "trimGe"} ->
           JsAnd(v, TrimCompare(v, "trimGt", rule.check.n))
      [] rule.check.op = "arrayGe" ->
           JsAnd(Bool(v.t = "array"), Bool(v.n > rule.check.n))

\* rule.check(data) : the value the closure returns, which is a boolean only
\* when the left operand of && is truthy
RuleCheck(rule, data) ==
    LET v == Get(data, rule.check.field) IN
    CASE rule.check.op \in {"trimGt", "trimGe"} ->
           JsAnd(v, TrimCompare(v, rule.check.op, rule.check.n))
      [] rule.check.op = "arrayGe" ->
           JsAnd(Bool(v.t = "array"), Bool(v.n >= rule.check.n))

\* checkDocument(data) raises: some closure raises, and neither forEach nor
\* checkDocument catches it
Throws(rules, data) ==
    \E i \in 1..Len(rules) : \E j \in 1..Len(rules[i].value) :
        RuleCheck(rules[i].value[j], data).t = "throw"

\* ---------------------------------------------------------- checkCategory
\* mutant of AddCheck: a failing rule of severity neither error nor warning
\* is dropped instead of going to suggestions
AddCheckDropInfo(result, rule, isValid) ==
    LET checkResult == [id |-> rule.id, name |-> rule.name,
                        description |-> rule.description, passed |-> isValid,
                        severity |-> rule.severity, suggestion |-> rule.suggestion]
    IN IF ToBoolean(isValid) THEN [result EXCEPT !.passed = @ + 1]
       ELSE IF rule.severity = "error"
            THEN [result EXCEPT !.errors = Append(@, checkResult)]
       ELSE IF rule.severity = "warning"
            THEN [result EXCEPT !.warnings = Append(@, checkResult)]
       ELSE result

\* mutant of AddCheck: the warning severity is misspelt, so a failing warning
\* rule goes to suggestions
AddCheckWarnTypo(result, rule, isValid) ==
    LET checkResult == [id |-> rule.id, name |-> rule.name,
                        description |-> rule.description, passed |-> isValid,
                        severity |-> rule.severity, suggestion |-> rule.suggestion]
    IN IF ToBoolean(isValid) THEN [result EXCEPT !.passed = @ + 1]
       ELSE IF rule.severity = "error"
            THEN [result EXCEPT !.errors = Append(@, checkResult)]
       ELSE IF rule.severity = "warn"
            THEN [result EXCEPT !.warnings = Append(@, checkResult)]
       ELSE [result EXCEPT !.suggestions = Append(@, checkResult)]

\* mutant of AddCheck: the rule object itself is put into the list, not a
\* new CheckResult
AddCheckPushRule(result, rule, isValid) ==
    IF ToBoolean(isValid) THEN [result EXCEPT !.passed = @ + 1]
    ELSE IF rule.severity = "error"
         THEN [result EXCEPT !.errors = Append(@, rule)]
    ELSE IF rule.severity = "warning"
         THEN [result EXCEPT !.warnings = Append(@, rule)]
    ELSE [result EXCEPT !.suggestions = Append(@, rule)]

\* the body of rules.forEach in checkCategory, for one rule
AddCheck(result, rule, isValid) ==
    LET checkResult == [id |-> rule.id, name |-> rule.name,
                        description |-> rule.description, passed |-> isValid,
                        severity |-> rule.severity, suggestion |-> rule.suggestion]
    IN IF ToBoolean(isValid) THEN [result EXCEPT !.passed = @ + 1]
       ELSE IF rule.severity = "error"
            THEN [result EXCEPT !.errors = Append(@, checkResult)]
       ELSE IF rule.severity = "warning"
            THEN [result EXCEPT !.warnings = Append(@, checkResult)]
       ELSE [result EXCEPT !.suggestions = Append(@, checkResult)]

checkCategory(data, rules) ==
    LET step[i \in 0..Len(rules)] ==
            IF i = 0
            THEN [total |-> Len(rules), passed |-> 0, errors |-> <<>>,
                  warnings |-> <<>>, suggestions |-> <<>>]
            ELSE AddCheck(step[i - 1], rules[i], RuleCheck(rules[i], data))
    IN step[Len(rules)]

\* ---------------------------------------------------------- checkDocument
\* mutant of MathRound: the fraction is cut off
MathFloor(num, den) == num \div den

\* Math.round(num / den) for num >= 0, den > 0: the nearest integer, a half
\* going up.  (The code rounds the double (p / t) * 100; for t = 11 no such
\* value is within 1/22 of a half, so the double rounds as the exact value.)
MathRound(num, den) == (2 * num + den) \div (2 * den)

\* mutant of Overall: suggestions count as warnings
OverallCountsSuggestions(results) ==
    IF Len(results.errors) > 0 THEN "fail"
    ELSE IF Len(results.warnings) > 0 \/ Len(results.suggestions) > 0 THEN "warning"
    ELSE "pass"

\* the overall status chosen at the end of checkDocument
Overall(results) ==
    IF Len(results.errors) > 0 THEN "fail"
    ELSE IF Len(results.warnings) > 0 THEN "warning"
    ELSE "pass"

\* mutant of Push: the elements are put before those the list holds
Unshift(list, items) == items \o list

\* list.push(...items)
Push(list, items) == list \o items

\* checkDocument(data) on an instance whose this.checkRules is rules
checkDocument(rules, data) ==
    LET keys == ObjectKeys(rules)
        step[i \in 0..Len(keys)] ==
            IF i = 0
            THEN [overall |-> "pass", score |-> 0, totalChecks |-> 0,
                  passedChecks |-> 0, errors |-> <<>>, warnings |-> <<>>,
                  suggestions |-> <<>>, categories |-> <<>>]
            ELSE LET results == step[i - 1]
                     category == keys[i]
                     categoryResults == checkCategory(data, Prop(rules, category))
                 IN [results EXCEPT
                       !.categories = Append(@, [key |-> category, value |-> categoryResults]),
                       !.totalChecks = @ + categoryResults.total,
                       !.passedChecks = @ + categoryResults.passed,
                       !.errors = Push(@, categoryResults.errors),
                       !.warnings = Push(@, categoryResults.warnings),
                       !.suggestions = Push(@, categoryResults.suggestions)]
        results == step[Len(keys)]
    IN [results EXCEPT
          !.score = IF results.totalChecks > 0
                    THEN MathRound(results.passedChecks * 100, results.totalChecks)
                    ELSE 0,
          !.overall = Overall(results)]

\* --------------------------------------------------------- generateReport
\* A text is the sequence of its lines, a line the sequence of the pieces
\* the template puts together; an empty line is << >>.

\* statusMap[status] || status
getStatusText(status) ==
    CASE status = "pass" -> "[ok] passed"
      [] status = "warning" -> "[!] has warnings"
      [] status = "fail" -> "[x] failed"
      [] OTHER -> status

\* nameMap[category] || category
getCategoryName(category) ==
    CASE category = "basicInfo" -> "Basic information"
      [] category = "backgroundTech" -> "Background technology"
      [] category = "technicalSolution" -> "Technical solution"
      [] category = "technicalEffects" -> "Technical effects"
      [] category = "implementation" -> "Implementation"
      [] OTHER -> category

\* mutant of IssueSection: the section is written for an empty list too
IssueSectionAlways(header, intro, list) ==
    << <<header, ToString(Len(list)), ")">>, << >>, <<intro>>, << >> >>
    \o [i \in 1..Len(list) |-> <<"- **", list[i].name, "**: ", list[i].suggestion>>]
    \o << << >> >>

\* one of the three issue sections: nothing when the list is empty
IssueSection(header, intro, list) ==
    IF Len(list) > 0
    THEN << <<header, ToString(Len(list)), ")">>, << >>, <<intro>>, << >> >>
         \o [i \in 1..Len(list) |-> <<"- **", list[i].name, "**: ", list[i].suggestion>>]
         \o << << >> >>
    ELSE << >>

\* mutant of CategoryBlock: the count lines are written when the count is 0
CategoryBlockAllCounts(category, categoryResult) ==
    << <<"### ", getCategoryName(category)>>, << >>,
       <<"- passed: ", ToString(categoryResult.passed), "/", ToString(categoryResult.total)>>,
       <<"- errors: ", ToString(Len(categoryResult.errors))>>,
       <<"- warnings: ", ToString(Len(categoryResult.warnings))>>,
       <<"- suggestions: ", ToString(Len(categoryResult.suggestions))>>,
       << >> >>

\* the detail block of one category
CategoryBlock(category, categoryResult) ==
    << <<"### ", getCategoryName(category)>>, << >>,
       <<"- passed: ", ToString(categoryResult.passed), "/", ToString(categoryResult.total)>> >>
    \o (IF Len(categoryResult.errors) > 0
        THEN << <<"- errors: ", ToString(Len(categoryResult.errors))>> >> ELSE << >>)
    \o (IF Len(categoryResult.warnings) > 0
        THEN << <<"- warnings: ", ToString(Len(categoryResult.warnings))>> >> ELSE << >>)
    \o (IF Len(categoryResult.suggestions) > 0
        THEN << <<"- suggestions: ", ToString(Len(categoryResult.suggestions))>> >> ELSE << >>)
    \o << << >> >>

generateReport(checkResults) ==
    LET keys == ObjectKeys(checkResults.categories)
        detail[i \in 0..Len(keys)] ==
            IF i = 0 THEN << >>
            ELSE detail[i - 1] \o CategoryBlock(keys[i], Prop(checkResults.categories, keys[i]))
    IN << <<"# Quality report">>, << >>,
          <<"## Overall assessment">>, << >>,
          <<"- **score**: ", ToString(checkResults.score), "/100">>,
          <<"- **status**: ", getStatusText(checkResults.overall)>>,
          <<"- **checks**: ", ToString(checkResults.passedChecks), "/",
            ToString(checkResults.totalChecks), " passed">>, << >> >>
       \o IssueSection("## [x] Errors (", "fix these at once:", checkResults.errors)
       \o IssueSection("## [!] Warnings (", "these should be fixed:", checkResults.warnings)
       \o IssueSection("## [i] Suggestions (", "improvements to consider:", checkResults.suggestions)
       \o << <<"## Category detail">>, << >> >>
       \o detail[Len(keys)]

\* -------------------------------------------------- getAutoFixSuggestions
\* new Date().toLocaleDateString() for the date now
LocaleDate(now) ==
    <<ToString(now.year), "/", ToString(now.month), "/", ToString(now.day)>>

\* String(n).padStart(3, '0')
PadStart3(n) ==
    IF n < 10 THEN <<"00", ToString(n)>>
    ELSE IF n < 100 THEN <<"0", ToString(n)>>
    ELSE <<ToString(n)>>

\* mutant of getAutoFixSuggestions: the title is tested like the other two
\* fields, without trimming
getAutoFixSuggestionsNoTrim(data, now, rnd) ==
    (IF ~ToBoolean(Get(data, "title"))
     THEN << [type |-> "title", action |-> "setTitle",
              value |-> <<"solution_">> \o LocaleDate(now)] >>
     ELSE << >>)
    \o (IF ~ToBoolean(Get(data, "documentId"))
        THEN << [type |-> "documentId", action |-> "setDocumentId",
                 value |-> <<"TD-", ToString(now.year), "-">> \o PadStart3(rnd)] >>
        ELSE << >>)
    \o (IF ~ToBoolean(Get(data, "date"))
        THEN << [type |-> "date", action |-> "setDate", value |-> LocaleDate(now)] >>
        ELSE << >>)

\* getAutoFixSuggestions(data), with the clock reading now and
\* Math.floor(Math.random() * 1000) giving rnd
getAutoFixSuggestions(data, now, rnd) ==
    (IF ~ToBoolean(Get(data, "title")) \/ StrLength(Trim(Get(data, "title").s)) = 0
     THEN << [type |-> "title", action |-> "setTitle",
              value |-> <<"solution_">> \o LocaleDate(now)] >>
     ELSE << >>)
    \o (IF ~ToBoolean(Get(data, "documentId"))
        THEN << [type |-> "documentId", action |-> "setDocumentId",
                 value |-> <<"TD-", ToString(now.year), "-">> \o PadStart3(rnd)] >>
        ELSE << >>)
    \o (IF ~ToBoolean(Get(data, "date"))
        THEN << [type |-> "date", action |-> "setDate", value |-> LocaleDate(now)] >>
        ELSE << >>)

\* ------------------------------------------------------- the rule table
\* The rubric as the specification states it (section 4.1): the ids in
\* registry order, the least number of characters (of elements for
\* keyFeatures) a field needs, and the severities.
RuleIds ==
    << "title", "technicalField", "inventor", "backgroundTechnology",
       "currentProblems", "technicalProblem", "technicalSolution", "keyFeatures",
       "beneficialEffects", "performanceData", "embodimentDescription" >>

TableMin(id) ==
    CASE id = "title" -> 1
      [] id = "technicalField" -> 10
      [] id = "inventor" -> 1
      [] id = "backgroundTechnology" -> 50
      [] id = "currentProblems" -> 30
      [] id = "technicalProblem" -> 20
      [] id = "technicalSolution" -> 100
      [] id = "keyFeatures" -> 3
      [] id = "beneficialEffects" -> 30
      [] id = "performanceData" -> 1
      [] id = "embodimentDescription" -> 50

ErrorIds ==
    { "title", "inventor", "currentProblems", "technicalProblem",
      "technicalSolution", "beneficialEffects" }
WarningIds ==
    { "technicalField", "backgroundTechnology", "keyFeatures", "embodimentDescription" }
InfoIds == { "performanceData" }
AllIds == ErrorIds \cup WarningIds \cup InfoIds
StringIds == AllIds \ { "keyFeatures" }
\* fields a record may hold that no rule reads
OtherFields == { "documentId", "date" }

RECURSIVE CodePoints(_)
\* the number of characters (Unicode code points) of a string
CodePoints(runs) ==
    IF runs = <<>> THEN 0 ELSE Head(runs).k + CodePoints(Tail(runs))

\* a string without the white space before its first and after its last
\* character that is not white space
Trimmed(runs) ==
    LET solid == { i \in 1..Len(runs) : runs[i].c # "ws" }
    IN IF solid = {} THEN << >>
       ELSE SubSeq(runs, CHOOSE i \in solid : \A j \in solid : i <= j,
                         CHOOSE i \in solid : \A j \in solid : i >= j)

\* the rule of the table is met by the record: the trimmed field has at
\* least TableMin characters, keyFeatures is a list of at least 3 elements
Meets(id, data) ==
    LET v == Get(data, id) IN
    IF id = "keyFeatures" THEN v.t = "array" /\ v.n >= TableMin(id)
    ELSE v.t = "string" /\ CodePoints(Trimmed(v.s)) >= TableMin(id)

\* ------------------------------------------------------------- the inputs
Run(c, k) == IF k = 0 THEN << >> ELSE << [c |-> c, k |-> k] >>
\* k characters of class c with pad white space on both sides
Padded(c, k, pad) ==
    IF k = 0 THEN Str(Run("ws", 2 * pad))
    ELSE Str(Run("ws", pad) \o Run(c, k) \o Run("ws", pad))

\* the values tried for a field
Values(f) ==
    IF f = "keyFeatures"
    THEN { Arr(TableMin(f) - 1), Arr(TableMin(f)), Str(Run("bmp", TableMin(f))),
           Num(TableMin(f)), Null, Obj }
    ELSE IF f \in OtherFields
    THEN { Str(<< >>), Str(Run("ws", MaxPad)), Str(Run("bmp", 1)) }
    ELSE { Str(<< >>),
           Str(Run("ws", MaxPad)),
           Padded("bmp", TableMin(f) - 1, MaxPad),
           Padded("bmp", TableMin(f), 0),
           Padded("bmp", TableMin(f), MaxPad),
           Str(Run("bmp", 1) \o Run("ws", TableMin(f)) \o Run("bmp", 1)),
           Padded("astral", (TableMin(f) + 1) \div 2, 0) }

\* a value that meets the rule of field f
GoodValue(f) ==
    IF f = "keyFeatures" THEN Arr(TableMin(f)) ELSE Padded("bmp", TableMin(f), 0)

GoodRecord(S) == [f \in S |-> GoodValue(f)]
Prefix(n) == { RuleIds[i] : i \in 1..n }

\* every string field written in characters outside the Basic Multilingual
\* Plane, half as many as the rule of the field asks for
AstralRecord ==
    [f \in StringIds |-> Padded("astral", (TableMin(f) + 1) \div 2, 0)]

\* the records a caller starts from: the one above, the empty one, the first category
\* filled in, the error rules or the other rules met, all but the last two
\* categories filled in, everything filled in
BaseRecords ==
    { GoodRecord({}), GoodRecord(Prefix(3)), GoodRecord(ErrorIds),
      GoodRecord(WarningIds \cup InfoIds), GoodRecord(Prefix(8)), GoodRecord(AllIds),
      AstralRecord }

SetField(data, f, v) ==
    [g \in DOMAIN data \cup {f} |-> IF g = f THEN v ELSE data[g]]
DeleteField(data, f) == [g \in DOMAIN data \ {f} |-> data[g]]

\* the records one edit of a single field away
Edited(data) ==
    UNION { { SetField(data, f, v) : v \in Values(f) } : f \in AllIds \cup OtherFields }
    \cup { DeleteField(data, f) : f \in DOMAIN data }

Dates == { [year |-> 2024, month |-> 12, day |-> 31] }
Randoms == { 7, 42 }

\* ------------------------------------------------------ the state machine
VARIABLES
    checkRules,   \* this.checkRules of the QualityChecker instance
    data,         \* the caller's DocumentRecord
    edits,        \* how many single-field edits the caller has made
    last,         \* the latest checkDocument call: its argument and its report
    prev,         \* the checkDocument call before that one
    ret           \* what the latest call of any operation returned

checker == <<checkRules, data, edits, last, prev, ret>>

\* ------------------------------------------ the state outside the checker
\* background.js: the stored documents and the calls that save them
VARIABLES
    disclosures,  \* what chrome.storage.local holds under 'disclosures'
    saves,        \* the saveDisclosureDocument calls, each with its position
    clock         \* what Date.now() returns

\* how many saveDisclosureDocument calls are made
MaxSavers == 2
\* how many milliseconds pass while they run
MaxClock == 1

Savers == 1..MaxSavers
\* an object without properties
EmptyObject == [k \in {} |-> << >>]
NoSave == [pc |-> "idle", data |-> 0, disclosures |-> EmptyObject, id |-> 0,
           returned |-> << >>]

StorageInit ==
    /\ disclosures = EmptyObject
    /\ saves = [c \in Savers |-> NoSave]
    /\ clock = 0

storage == <<disclosures, saves, clock>>

\* popup.js: the steps of the form
VARIABLES
    currentStep,  \* this.currentStep of the DisclosureAssistant
    filled,       \* per form section: its required fields all hold text
    highlighted,  \* per form section: its empty required fields are marked
    nextDisplay,  \* style.display of the next-step button
    stepError     \* what the latest prevStep or nextStep call raised

totalSteps == 4
Steps == 1..totalSteps

WizardInit ==
    /\ currentStep = 1
    /\ filled = [s \in Steps |-> FALSE]
    /\ highlighted = [s \in Steps |-> FALSE]
    /\ nextDisplay = "inline-block"
    /\ stepError = "none"

wizard == <<currentStep, filled, highlighted, nextDisplay, stepError>>

\* background.js: the messages the listener is handed
VARIABLES
    messages      \* per message: its action, how far it got, its responses

\* how many messages are sent to the service worker
MaxMessages == 2
Messages == 1..MaxMessages
NoMessage == [action |-> "", pc |-> "unsent", channel |-> "closed",
              operation |-> "", responses |-> << >>]

ListenerInit == messages = [m \in Messages |-> NoMessage]

listener == <<messages>>

\* popup.js: the loading indicator and the operations that use it
VARIABLES
    loading,      \* the element 'loading' has class 'active'
    status,       \* the text updateStatus wrote last
    toast,        \* the kind of the toast shown last
    operations    \* the generateDocument and exportDocument calls

\* how many generateDocument or exportDocument calls are made
MaxOperations == 2
Operations == 1..MaxOperations
NoOperation == [kind |-> "none", format |-> "", pc |-> "idle"]
\* the formats of the export buttons
Formats == { "markdown", "html", "pdf" }

IndicatorInit ==
    /\ loading = FALSE
    /\ status = "ready"
    /\ toast = "none"
    /\ operations = [o \in Operations |-> NoOperation]

indicator == <<loading, status, toast, operations>>

\* popup.js and background.js: auto-save of the draft
VARIABLES
    autoSave,       \* the checkbox 'auto-save' is checked
    autoSaveTimer,  \* this.autoSaveTimer: the id setTimeout returned, 0 for null
    timers,         \* the timeouts that are set and have not run
    time,           \* milliseconds since the popup opened
    form,           \* the content of the form: how often it was changed
    inputs,         \* the input events so far: when, and with auto-save on or off
    drafts,         \* the saveDraft messages sent: when, and with what data
    draft           \* what chrome.storage.local holds under 'draft'

\* how many input events the user causes
MaxInputs == 3
\* how long the popup is watched, in ms
MaxTime == 3000
\* the delay handleAutoSave passes to setTimeout, in ms
AutoSaveDelay == 1000

AutoSaveInit ==
    /\ autoSave = TRUE
    /\ autoSaveTimer = 0
    /\ timers = {}
    /\ time = 0
    /\ form = 0
    /\ inputs = << >>
    /\ drafts = << >>
    /\ draft = [stored |-> 0, data |-> 0]

autosave == <<autoSave, autoSaveTimer, timers, time, form, inputs, drafts, draft>>

\* performance.js: the cache of the PerformanceOptimizer
VARIABLES
    cache,        \* this.cache: per key its entry { data, timestamp }, if any
    cachedCalls,  \* the cached(key, operation, timeout) calls
    perfNow       \* what Date.now() returns to the optimizer

\* how many cached(...) calls are made
MaxCalls == 2
\* how many milliseconds pass while they run
MaxPerfNow == 3
Calls == 1..MaxCalls
Keys == { "settings", "template" }
NoEntry == [present |-> FALSE, data |-> 0, timestamp |-> 0]
NoCachedCall == [pc |-> "idle", key |-> "", timeout |-> 0, at |-> 0,
                 seen |-> NoEntry, invoked |-> FALSE, returned |-> 0]

CacheInit ==
    /\ cache = [k \in Keys |-> NoEntry]
    /\ cachedCalls = [c \in Calls |-> NoCachedCall]
    /\ perfNow = 0

caching == <<cache, cachedCalls, perfNow>>

\* performance.js: the logs of the PerformanceOptimizer
VARIABLES
    performanceMetrics,  \* this.performanceMetrics: operations and errors
    logged,              \* how many entries were ever logged to each list
    pending,             \* how many wrapAsync calls await their operation
    pageLoaded           \* the load event has been handled

\* how many logPerformance and how many logError calls are made
MaxLogPerformance == 102
MaxLogError == 52
\* how many wrapAsync calls run at one time
MaxPending == 1
\* how many entries logPerformance and logError keep
OperationsKept == 100
ErrorsKept == 50

MetricsInit ==
    /\ performanceMetrics = [operations |-> << >>, errors |-> << >>]
    /\ logged = [operations |-> 0, errors |-> 0]
    /\ pending = 0
    /\ pageLoaded = FALSE

metrics == <<performanceMetrics, logged, pending, pageLoaded>>

\* performance.js: the AIService
VARIABLES
    apiKey,               \* this.apiKey
    conversationHistory,  \* this.conversationHistory: the roles of its messages
    requests,             \* the HTTP requests issued by makeRequest, by method
    inflight,             \* how many of them have no response yet
    aiLast                \* the latest call of one of the seven methods

\* how many calls of the seven methods are made
MaxAiCalls == 3
NoAiCall == [n |-> 0, method |-> "", outcome |-> "none", error |-> ""]

AIServiceInit ==
    /\ apiKey = ""
    /\ conversationHistory = << >>
    /\ requests = << >>
    /\ inflight = 0
    /\ aiLast = NoAiCall

ai == <<apiKey, conversationHistory, requests, inflight, aiLast>>

others == <<storage, wizard, listener, indicator, autosave, caching,
    metrics, ai>>
OthersInit ==
    /\ StorageInit
    /\ WizardInit
    /\ ListenerInit
    /\ IndicatorInit
    /\ AutoSaveInit
    /\ CacheInit
    /\ MetricsInit
    /\ AIServiceInit

\* what the actions of one component leave alone
notStorage == <<checker, wizard, listener, indicator, autosave, caching,
    metrics, ai>>
notWizard == <<checker, storage, listener, indicator, autosave, caching,
    metrics, ai>>
notListener == <<checker, storage, wizard, indicator, autosave, caching,
    metrics, ai>>
notIndicator == <<checker, storage, wizard, listener, autosave, caching,
    metrics, ai>>
notAutosave == <<checker, storage, wizard, listener, indicator, caching,
    metrics, ai>>
notCaching == <<checker, storage, wizard, listener, indicator, autosave,
    metrics, ai>>
notMetrics == <<checker, storage, wizard, listener, indicator, autosave,
    caching, ai>>
notAi == <<checker, storage, wizard, listener, indicator, autosave,
    caching, metrics>>

vars == <<checker, others>>

NoCall == [called |-> FALSE, data |-> << >>, threw |-> FALSE, results |-> << >>]
NoRet == [op |-> "none", arg |-> << >>, value |-> << >>]

\* new QualityChecker(), and a record in the caller's hands
Init ==
    /\ checkRules = initCheckRules
    /\ data \in BaseRecords
    /\ edits = 0
    /\ last = NoCall
    /\ prev = NoCall
    /\ ret = NoRet
    /\ OthersInit

\* mutant of RulesAfterCheck: the call takes the categories off the registry
\* as it walks them, the last one staying behind
RulesAfterCheckConsumed(rules) ==
    IF Len(rules) > 1 THEN SubSeq(rules, Len(rules), Len(rules)) ELSE rules

\* what a checkDocument call leaves in this.checkRules: the method reads
\* the registry and assigns nothing to it
RulesAfterCheck(rules) == rules

\* what checkDocument and checkCategory leave in the record passed to them:
\* they read data.<field> in the rule closures and assign nothing
DataAfterCheck(r) == r

\* what generateReport leaves in the report passed to it: it reads the
\* counters and walks the lists with forEach, assigning nothing
ReportAfterGenerate(checkResults) == checkResults

\* mutant of DataAfterFix: the title proposed is also written into the record
DataAfterFixApplied(r) ==
    IF ~ToBoolean(Get(r, "title")) \/ StrLength(Trim(Get(r, "title").s)) = 0
    THEN [g \in DOMAIN r \cup {"title"} |->
             IF g = "title" THEN Str(<< [c |-> "bmp", k |-> 9] >>) ELSE r[g]]
    ELSE r

\* what getAutoFixSuggestions leaves in the record passed to it: the values
\* it proposes go into the list it returns, none into data
DataAfterFix(r) == r

\* the call checker.checkDocument(r) as the caller sees it: the record as
\* passed, whether the call raised, and the report returned when it did not
Call(rules, r) ==
    LET threw == Throws(rules, r)
    IN [called |-> TRUE, data |-> r, threw |-> threw,
        results |-> IF threw THEN << >> ELSE checkDocument(rules, r)]

\* checker.checkDocument(r), r being the caller's record as it is
CheckDocument ==
    /\ prev' = last
    /\ last' = Call(checkRules, data)
    /\ ret' = [op |-> "checkDocument", arg |-> << >>, value |-> << >>]
    /\ checkRules' = RulesAfterCheck(checkRules)
    /\ data' = DataAfterCheck(data)
    /\ UNCHANGED <<edits, others>>

\* the caller changes one field of the record, then checker.checkDocument(r)
EditAndCheck ==
    /\ edits < MaxEdits
    /\ \E r \in Edited(data) \ {data} :
          /\ data' = DataAfterCheck(r)
          /\ prev' = last
          /\ last' = Call(checkRules, r)
    /\ edits' = edits + 1
    /\ ret' = [op |-> "checkDocument", arg |-> << >>, value |-> << >>]
    /\ checkRules' = RulesAfterCheck(checkRules)
    /\ UNCHANGED others

\* checker.generateReport(results) on the report of the latest check
GenerateReport ==
    /\ last.called /\ ~last.threw
    /\ ret' = [op |-> "generateReport", arg |-> last.results,
               value |-> generateReport(last.results)]
    /\ last' = [last EXCEPT !.results = ReportAfterGenerate(@)]
    /\ UNCHANGED <<checkRules, data, edits, prev, others>>

\* checker.getAutoFixSuggestions(data)
GetAutoFixSuggestions ==
    /\ \E now \in Dates, rnd \in Randoms :
          ret' = [op |-> "getAutoFixSuggestions", arg |-> data,
                  value |-> getAutoFixSuggestions(data, now, rnd)]
    /\ data' = DataAfterFix(data)
    /\ UNCHANGED <<checkRules, edits, last, prev, others>>

Next ==
    \/ CheckDocument
    \/ EditAndCheck
    \/ GenerateReport
    \/ GetAutoFixSuggestions

Spec == Init /\ [][Next]_vars

\* the checker with no record in hand, for the behaviours of the other
\* components
CheckerIdle ==
    /\ checkRules = initCheckRules
    /\ data = << >>
    /\ edits = 0
    /\ last = NoCall
    /\ prev = NoCall
    /\ ret = NoRet

\* ------------------------------------------------------------- the claims
Ids(list) == { list[i].id : i \in 1..Len(list) }
\* the rules a report holds in one of its three top-level lists
FailedIds(results) ==
    Ids(results.errors) \cup Ids(results.warnings) \cup Ids(results.suggestions)
CategoryKeys == <<"basicInfo", "backgroundTech", "technicalSolution",
                  "technicalEffects", "implementation">>
CategoryCounts == <<3, 2, 3, 2, 1>>

\* C1: in every category of a report returned by checkDocument, passed plus
\* the lengths of errors, warnings and suggestions equals total, and no rule
\* is held twice or in two of the three lists.
C1_BucketsSumToTotal ==
    last.called =>
        \A i \in 1..Len(last.results.categories) :
            LET c == last.results.categories[i].value
                all == c.errors \o c.warnings \o c.suggestions
            IN /\ c.passed + Len(c.errors) + Len(c.warnings) + Len(c.suggestions) = c.total
               /\ Cardinality(Ids(all)) = Len(all)

\* C1 witness: a category with a passed rule, an error and a warning
C1_Witness ==
    /\ last.called
    /\ \E i \in 1..Len(last.results.categories) :
          LET c == last.results.categories[i].value
          IN c.passed > 0 /\ Len(c.errors) > 0 /\ Len(c.warnings) > 0

\* C2: whatever the record holds, totalChecks is 11 and the five categories
\* have totals 3, 2, 3, 2 and 1.
C2_TotalChecksIsEleven ==
    last.called =>
        /\ last.results.totalChecks = 11
        /\ ObjectKeys(last.results.categories) = CategoryKeys
        /\ \A i \in 1..Len(CategoryKeys) :
              last.results.categories[i].value.total = CategoryCounts[i]

\* C2 witness: two checks of records that pass different numbers of rules
C2_Witness ==
    /\ last.called /\ prev.called
    /\ prev.data # last.data
    /\ prev.results.passedChecks # last.results.passedChecks
    /\ prev.results.totalChecks = last.results.totalChecks

\* C3: overall is fail exactly when errors is not empty, warning exactly when
\* errors is empty and warnings is not, pass exactly when both are empty.
C3_OverallFromErrorsAndWarnings ==
    last.called =>
        LET r == last.results IN
        /\ (r.overall = "fail") <=> (r.errors # << >>)
        /\ (r.overall = "warning") <=> (r.errors = << >> /\ r.warnings # << >>)
        /\ (r.overall = "pass") <=> (r.errors = << >> /\ r.warnings = << >>)

\* C3 witness: a report with a suggestion only, which passes
C3_Witness ==
    /\ last.called
    /\ last.results.errors = << >> /\ last.results.warnings = << >>
    /\ last.results.suggestions # << >>
    /\ last.results.overall = "pass"

\* C4: score is passedChecks / totalChecks * 100 rounded to the nearest
\* integer, a half going up, and 0 when totalChecks is 0; it lies in 0..100.
C4_ScoreIsRoundedPercentage ==
    last.called =>
        LET p == last.results.passedChecks
            n == last.results.totalChecks
            s == last.results.score
        IN /\ s \in 0..100
           /\ n > 0 => (200 * p - n < 2 * n * s /\ 2 * n * s <= 200 * p + n)
           /\ n = 0 => s = 0

\* C4 witness: 7 of 11 rules pass, 63.6 is rounded up to 64
C4_Witness ==
    last.called /\ last.results.passedChecks = 7 /\ last.results.score = 64

\* C5: the empty record gives overall fail, score 0, totalChecks 11,
\* passedChecks 0 and exactly the six error rules in errors.
C5_EmptyRecord ==
    (last.called /\ DOMAIN last.data = {}) =>
        /\ last.results.overall = "fail"
        /\ last.results.score = 0
        /\ last.results.totalChecks = 11
        /\ last.results.passedChecks = 0
        /\ Len(last.results.errors) = 6
        /\ Ids(last.results.errors) = ErrorIds

\* C5 witness: the empty record has been checked
C5_Witness ==
    last.called /\ DOMAIN last.data = {} /\ last.results.overall = "fail"

\* C6: a record that meets all 11 rules gives overall pass, score 100,
\* passedChecks 11 and empty lists at top level and in every category.
C6_AllRulesMet ==
    (last.called /\ \A id \in AllIds : Meets(id, last.data)) =>
        /\ last.results.overall = "pass"
        /\ last.results.score = 100
        /\ last.results.passedChecks = 11
        /\ last.results.errors = << >>
        /\ last.results.warnings = << >>
        /\ last.results.suggestions = << >>
        /\ \A i \in 1..Len(last.results.categories) :
              LET c == last.results.categories[i].value
              IN c.errors = << >> /\ c.warnings = << >> /\ c.suggestions = << >>

\* C6 witness: such a record, padded with white space in one field, checked
C6_Witness ==
    /\ last.called
    /\ \A id \in AllIds : Meets(id, last.data)
    /\ \E id \in StringIds : last.data[id].s[1].c = "ws"
    /\ last.results.score = 100

\* C7: a record that meets the six error rules and none of the others gives
\* overall warning, no errors and some warnings.
C7_ErrorRulesOnly ==
    (/\ last.called
     /\ \A id \in ErrorIds : Meets(id, last.data)
     /\ \A id \in WarningIds \cup InfoIds : ~Meets(id, last.data)) =>
        /\ last.results.overall = "warning"
        /\ last.results.errors = << >>
        /\ last.results.warnings # << >>

\* C7 witness: such a record checked
C7_Witness ==
    /\ last.called
    /\ \A id \in ErrorIds : Meets(id, last.data)
    /\ \A id \in WarningIds \cup InfoIds : ~Meets(id, last.data)
    /\ last.results.overall = "warning"

\* C8: each rule passes exactly when its field meets the threshold of the
\* rule table, counted in characters after trimming.
C8_RulePassesIffTableMet ==
    last.called =>
        \A id \in AllIds : (id \notin FailedIds(last.results)) <=> Meets(id, last.data)

\* the two records differ in field f and in no other
DifferOnlyIn(f, r1, r2) ==
    /\ Get(r1, f) # Get(r2, f)
    /\ \A g \in (AllIds \cup OtherFields) \ {f} : Get(r1, g) = Get(r2, g)

\* the length of a value as the rule table counts it
TableLength(v) ==
    CASE v.t = "string" -> CodePoints(Trimmed(v.s))
      [] v.t = "array" -> v.n
      [] OTHER -> 0

\* C9: for two records that differ in one field f only, every rule other
\* than f has the same outcome in both reports, and when the new value of f
\* is a string (a list) no shorter after trimming than the old string (list),
\* rule f does not go from passing to failing.
C9_OneFieldChange ==
    (last.called /\ prev.called) =>
        \A f \in AllIds \cup OtherFields :
            DifferOnlyIn(f, prev.data, last.data) =>
                /\ \A id \in AllIds \ {f} :
                      (id \in FailedIds(prev.results)) <=> (id \in FailedIds(last.results))
                /\ (/\ f \in AllIds
                    /\ Get(prev.data, f).t = Get(last.data, f).t
                    /\ TableLength(Get(last.data, f)) >= TableLength(Get(prev.data, f)))
                   => ~(f \notin FailedIds(prev.results) /\ f \in FailedIds(last.results))

Blank(v) ==
    v.t = "undefined" \/ (v.t = "string" /\ \A i \in 1..Len(v.s) : v.s[i].c = "ws")
IdSeq(list) == [i \in 1..Len(list) |-> list[i].id]
\* the ids in the lists and the counters of a report or of a category
Outcome(r) ==
    <<IdSeq(r.errors), IdSeq(r.warnings), IdSeq(r.suggestions)>>
Counters(results) ==
    << results.overall, results.score, results.totalChecks, results.passedChecks,
       Outcome(results),
       [i \in 1..Len(results.categories) |->
           << results.categories[i].key, results.categories[i].value.total,
              results.categories[i].value.passed,
              Outcome(results.categories[i].value) >>] >>

\* C12: a string field that is absent, empty or white space only fails its
\* rule, which lands in the list of its severity; two records that differ
\* only in which of the three a field is give the same lists and counters.
C12_BlankFieldsAlike ==
    last.called =>
        /\ \A f \in StringIds :
              Blank(Get(last.data, f)) =>
                  /\ f \in ErrorIds => f \in Ids(last.results.errors)
                  /\ f \in WarningIds => f \in Ids(last.results.warnings)
                  /\ f \in InfoIds => f \in Ids(last.results.suggestions)
        /\ prev.called =>
              \A f \in StringIds :
                  (/\ DifferOnlyIn(f, prev.data, last.data)
                   /\ Blank(Get(prev.data, f)) /\ Blank(Get(last.data, f)))
                  => Counters(prev.results) = Counters(last.results)

\* C12 witness: a field with a threshold above 1 went from absent to white
\* space only, and fails as before
C12_Witness ==
    /\ last.called /\ prev.called
    /\ \E f \in StringIds :
          /\ TableMin(f) > 1
          /\ DifferOnlyIn(f, prev.data, last.data)
          /\ Get(prev.data, f) = Undefined
          /\ Get(last.data, f).s # << >> /\ Blank(Get(last.data, f))
          /\ f \in FailedIds(last.results)

\* C13: checkDocument raises nothing for a record whose string fields are
\* each absent or a string; when keyFeatures is there and is no list, the
\* keyFeatures rule fails into warnings.
C13_NeverRaises ==
    last.called =>
        /\ ~last.threw
        /\ Get(last.data, "keyFeatures").t \in {"string", "number", "object", "null"}
              => "keyFeatures" \in Ids(last.results.warnings)

\* C13 witness: keyFeatures null and, in another run, a string of 3
\* characters, both reported as warnings
C13_Witness ==
    /\ last.called /\ ~last.threw
    /\ Get(last.data, "keyFeatures").t \in {"null", "string"}
    /\ "keyFeatures" \in Ids(last.results.warnings)

\* C14: a failing rule is in the list its severity chooses: error in errors,
\* warning in warnings, any other in suggestions; so the six error rules
\* are only ever in errors, the four warning rules in warnings and
\* performanceData in suggestions, at top level and in the categories.
C14_BucketBySeverity ==
    last.called =>
        LET InPlace(r) ==
                /\ \A i \in 1..Len(r.errors) : r.errors[i].severity = "error"
                /\ \A i \in 1..Len(r.warnings) : r.warnings[i].severity = "warning"
                /\ \A i \in 1..Len(r.suggestions) :
                      r.suggestions[i].severity \notin {"error", "warning"}
                /\ Ids(r.errors) \subseteq ErrorIds
                /\ Ids(r.warnings) \subseteq WarningIds
                /\ Ids(r.suggestions) \subseteq InfoIds
        IN /\ InPlace(last.results)
           /\ \A i \in 1..Len(last.results.categories) :
                 InPlace(last.results.categories[i].value)

\* C14 witness: a report with an error, a warning and a suggestion
C14_Witness ==
    /\ last.called
    /\ last.results.errors # << >>
    /\ last.results.warnings # << >>
    /\ last.results.suggestions # << >>

\* the lines of a text that begin with the piece h
LinesWith(text, h) == { i \in 1..Len(text) : text[i] # << >> /\ text[i][1] = h }
ErrorsHeader == "## [x] Errors ("
WarningsHeader == "## [!] Warnings ("
SuggestionsHeader == "## [i] Suggestions ("
DetailHeader == "## Category detail"
StatusLabel(overall) ==
    CASE overall = "pass" -> "[ok] passed"
      [] overall = "warning" -> "[!] has warnings"
      [] overall = "fail" -> "[x] failed"
CategoryNames == <<"Basic information", "Background technology", "Technical solution",
                   "Technical effects", "Implementation">>

\* the section of list is in the text once, with its count and a line for
\* every entry, when the list is not empty, and not at all when it is
SectionFor(text, header, list) ==
    LET at == LinesWith(text, header) IN
    IF list = << >> THEN at = {}
    ELSE /\ Cardinality(at) = 1
         /\ \A i \in at :
               /\ text[i] = <<header, ToString(Len(list)), ")">>
               /\ \A k \in 1..Len(list) :
                     text[i + 3 + k] = <<"- **", list[k].name, "**: ", list[k].suggestion>>

CountLine(text, block, label, list) ==
    LET at == { i \in block : text[i] # << >> /\ text[i][1] = label } IN
    IF list = << >> THEN at = {}
    ELSE Cardinality(at) = 1 /\ \A i \in at : text[i] = <<label, ToString(Len(list))>>

\* C16: for a report of checkDocument the detail holds the five categories
\* in registry order, each with its passed/total line and with the error,
\* warning and suggestion count lines exactly for the counts that are not
\* 0; a fully passing report has none of the three section headers and
\* still has the overall block and the five category blocks.
C16_CategoryDetail ==
    ret.op = "generateReport" =>
        LET text == ret.value
            r == ret.arg
            d == CHOOSE i \in LinesWith(text, DetailHeader) : TRUE
            heads == LinesWith(text, "### ")
            HeadLine(k) == CHOOSE i \in heads : Cardinality({ j \in heads : j <= i }) = k
            EndLine(k) == IF k = Len(CategoryKeys) THEN Len(text) ELSE HeadLine(k + 1) - 1
        IN /\ Cardinality(heads) = Len(CategoryKeys)
           /\ ObjectKeys(r.categories) = CategoryKeys
           /\ \A k \in 1..Len(CategoryKeys) :
                 LET c == r.categories[k].value
                     block == (HeadLine(k) + 1)..EndLine(k)
                 IN /\ HeadLine(k) > d
                    /\ text[HeadLine(k)] = <<"### ", CategoryNames[k]>>
                    /\ text[HeadLine(k) + 2]
                          = <<"- passed: ", ToString(c.passed), "/", ToString(c.total)>>
                    /\ CountLine(text, block, "- errors: ", c.errors)
                    /\ CountLine(text, block, "- warnings: ", c.warnings)
                    /\ CountLine(text, block, "- suggestions: ", c.suggestions)
           /\ (r.errors = << >> /\ r.warnings = << >> /\ r.suggestions = << >>) =>
                 /\ LinesWith(text, ErrorsHeader) = {}
                 /\ LinesWith(text, WarningsHeader) = {}
                 /\ LinesWith(text, SuggestionsHeader) = {}
                 /\ text[3] = <<"## Overall assessment">>

\* C16 witness: the text of a fully passing report, five category blocks
C16_Witness ==
    /\ ret.op = "generateReport"
    /\ ret.arg.overall = "pass" /\ ret.arg.suggestions = << >>
    /\ Cardinality(LinesWith(ret.value, "### ")) = 5
    /\ LinesWith(ret.value, "- errors: ") = {}

FixFields == <<"title", "documentId", "date">>
FixActions == <<"setTitle", "setDocumentId", "setDate">>
\* the suggestions are for the fields of FixFields that satisfy Need, one
\* each and in that order, each naming its field and carrying a value
SuggestionsFor(list, Need(_)) ==
    LET wanted == { k \in 1..Len(FixFields) : Need(FixFields[k]) }
    IN /\ Len(list) = Cardinality(wanted)
       /\ \A k \in wanted :
             LET at == Cardinality({ j \in wanted : j <= k })
             IN /\ list[at].type = FixFields[k]
                /\ list[at].action = FixActions[k]
                /\ list[at].value # << >>

\* C17 as claimed: one suggestion, in the order title, documentId, date, for
\* each of the three fields that is absent from the record, none for a
\* field that is present.
C17_SuggestionsForAbsentFields ==
    ret.op = "getAutoFixSuggestions" =>
        LET Absent(f) == f \notin DOMAIN ret.arg
        IN SuggestionsFor(ret.value, Absent)

\* C17 as amended: one suggestion, in the order title, documentId, date, for
\* title when it is absent, empty or white space only, and for documentId
\* and for date when absent or the empty string; none for a field that
\* holds any other string.
C17_SuggestionsForMissingValues ==
    ret.op = "getAutoFixSuggestions" =>
        LET Missing(f) ==
                IF f = "title" THEN Blank(Get(ret.arg, f))
                ELSE Get(ret.arg, f) \in {Undefined, Str(<< >>)}
        IN SuggestionsFor(ret.value, Missing)

\* C17 witness: a title of white space gets a suggestion and a date of
\* white space, or one that is filled in, gets none
C17_Witness ==
    /\ ret.op = "getAutoFixSuggestions"
    /\ \/ /\ "title" \in DOMAIN ret.arg /\ Blank(ret.arg.title)
          /\ ret.arg.title.s # << >>
          /\ ret.value[1].type = "title"
       \/ /\ "date" \in DOMAIN ret.arg /\ ret.arg.date.s # << >>
          /\ \A i \in 1..Len(ret.value) : ret.value[i].type # "date"
    /\ Len(ret.value) >= 2

\* the CheckResults of a report: those of its three lists and of the three
\* lists of each of its categories
Entries(results) ==
    LET Of(r) == { r.errors[i] : i \in 1..Len(r.errors) }
                 \cup { r.warnings[i] : i \in 1..Len(r.warnings) }
                 \cup { r.suggestions[i] : i \in 1..Len(r.suggestions) }
    IN Of(results)
       \cup UNION { Of(results.categories[i].value) :
                      i \in 1..Len(results.categories) }
\* the rule objects of a registry
Rules(registry) ==
    UNION { { registry[i].value[j] : j \in 1..Len(registry[i].value) } :
              i \in 1..Len(registry) }

C19_PassedIsFalse ==
    last.called => \A e \in Entries(last.results) : e.passed = Bool(FALSE)

\* C20: the length a string field is measured by is its number of code
\* points after trimming: the rule of a field that holds a string passes
\* exactly when the trimmed string has at least as many code points as the
\* threshold of the rule (5 characters outside the Basic Multilingual Plane
\* fail the threshold of 10).
C20_LengthInCodePoints ==
    last.called =>
        \A f \in StringIds :
            LET v == Get(last.data, f)
            IN v.t = "string" =>
                  ((f \in FailedIds(last.results))
                      <=> (CodePoints(Trimmed(v.s)) < TableMin(f)))

RECURSIVE Flatten(_)
\* the sequences of a sequence one after the other
Flatten(lists) ==
    IF lists = << >> THEN << >> ELSE Head(lists) \o Flatten(Tail(lists))
RECURSIVE Sum(_)
Sum(numbers) ==
    IF numbers = << >> THEN 0 ELSE Head(numbers) + Sum(Tail(numbers))
\* the rules of a list stand in the order of the rule table
InTableOrder(list) ==
    LET At(id) == CHOOSE a \in 1..Len(RuleIds) : RuleIds[a] = id
    IN /\ \A i \in 1..Len(list) : \E a \in 1..Len(RuleIds) : RuleIds[a] = list[i].id
       /\ \A i \in 1..(Len(list) - 1) : At(list[i].id) < At(list[i + 1].id)

\* C21: passedChecks is the sum of the categories' passed counts, and each
\* of errors, warnings and suggestions is the categories' lists of that
\* name one after the other, the categories in registry order and the
\* rules of a category in rule order.
C21_TopLevelIsConcatenation ==
    last.called =>
        LET r == last.results
            At(k) == CHOOSE i \in 1..Len(r.categories) :
                        r.categories[i].key = CategoryKeys[k]
            Cat(k) == r.categories[At(k)].value
        IN /\ r.passedChecks = Sum([k \in 1..5 |-> Cat(k).passed])
           /\ r.errors = Flatten([k \in 1..5 |-> Cat(k).errors])
           /\ r.warnings = Flatten([k \in 1..5 |-> Cat(k).warnings])
           /\ r.suggestions = Flatten([k \in 1..5 |-> Cat(k).suggestions])
           /\ InTableOrder(r.errors) /\ InTableOrder(r.warnings)
           /\ InTableOrder(r.suggestions)
           /\ \A k \in 1..5 : /\ InTableOrder(Cat(k).errors)
                              /\ InTableOrder(Cat(k).warnings)

\* C21 witness: errors of two categories and warnings of two categories,
\* and rules that passed in two categories
C21_Witness ==
    /\ last.called
    /\ LET c == last.results.categories
       IN /\ Cardinality({ i \in 1..Len(c) : c[i].value.errors # << >> }) >= 2
          /\ Cardinality({ i \in 1..Len(c) : c[i].value.warnings # << >> }) >= 2
          /\ Cardinality({ i \in 1..Len(c) : c[i].value.passed > 0 }) >= 2
          /\ \E i \in 1..Len(c) : Len(c[i].value.errors) >= 2

\* C22: no two of the 11 rules of the registry have one id, and in a report
\* an id is that of at most one CheckResult of the three lists together.
C22_RuleIdsUnique ==
    /\ LET all == Flatten([i \in 1..Len(checkRules) |-> checkRules[i].value])
       IN /\ Len(all) = 11
          /\ \A i, j \in 1..Len(all) : all[i].id = all[j].id => i = j
    /\ last.called =>
          LET found == last.results.errors \o last.results.warnings
                          \o last.results.suggestions
          IN \A i, j \in 1..Len(found) : found[i].id = found[j].id => i = j

\* C22 witness: a report in which all 11 rules failed
C22_Witness ==
    /\ last.called
    /\ Len(last.results.errors) + Len(last.results.warnings)
          + Len(last.results.suggestions) = 11

\* ------------------------------------------- background.js: the documents
\* obj[k] = v
Put(obj, k, v) == [x \in DOMAIN obj \cup {k} |-> IF x = k THEN v ELSE obj[x]]

\* a caller's message reaches saveDisclosureDocument(data), which calls
\* getStoredDisclosures and waits for chrome.storage.local.get
SaveCall(c) ==
    /\ saves[c].pc = "idle"
    /\ saves' = [saves EXCEPT ![c].pc = "get", ![c].data = c]
    /\ UNCHANGED <<disclosures, clock, notStorage>>

\* chrome.storage.local.get(['disclosures']) reads the store:
\* result.disclosures || {} is a copy of what is stored at that moment
StorageGet(c) ==
    /\ saves[c].pc = "get"
    /\ saves' = [saves EXCEPT ![c].pc = "got", ![c].disclosures = disclosures]
    /\ UNCHANGED <<disclosures, clock, notStorage>>

\* the call resumes: id = Date.now().toString(), disclosures[id] = {...},
\* and chrome.storage.local.set({ disclosures }) is asked for
SaveAssign(c) ==
    /\ saves[c].pc = "got"
    /\ saves' = [saves EXCEPT
                   ![c].pc = "set",
                   ![c].id = clock,
                   ![c].disclosures =
                       Put(@, clock, [id |-> clock, data |-> saves[c].data])]
    /\ UNCHANGED <<disclosures, clock, notStorage>>

\* chrome.storage.local.set({ disclosures }) replaces what is stored under
\* the key by the call's copy
StorageSet(c) ==
    /\ saves[c].pc = "set"
    /\ disclosures' = saves[c].disclosures
    /\ saves' = [saves EXCEPT ![c].pc = "stored"]
    /\ UNCHANGED <<clock, notStorage>>

\* the call resumes and returns { id, name }
SaveReturn(c) ==
    /\ saves[c].pc = "stored"
    /\ saves' = [saves EXCEPT ![c].pc = "done",
                              ![c].returned = [id |-> saves[c].id]]
    /\ UNCHANGED <<disclosures, clock, notStorage>>

\* a millisecond passes
Tick ==
    /\ clock < MaxClock
    /\ clock' = clock + 1
    /\ UNCHANGED <<disclosures, saves, notStorage>>

StorageNext ==
    \/ \E c \in Savers : SaveCall(c)
    \/ \E c \in Savers : StorageGet(c)
    \/ \E c \in Savers : SaveAssign(c)
    \/ \E c \in Savers : StorageSet(c)
    \/ \E c \in Savers : SaveReturn(c)
    \/ Tick

\* the service worker with nothing stored and no call made
InitStorage == CheckerIdle /\ OthersInit

SpecStorage == InitStorage /\ [][StorageNext]_vars

\* C23: when every saveDisclosureDocument call has returned, the stored
\* map has an entry for the id each of them returned, holding the data of
\* that call.
C23_NoSavedDocumentLost ==
    (\A c \in Savers : saves[c].pc = "done") =>
        \A c \in Savers :
            /\ saves[c].returned.id \in DOMAIN disclosures
            /\ disclosures[saves[c].returned.id].data = saves[c].data

\* ------------------------------------------------- popup.js: the wizard
\* the display updateNavigationButtons gives the next-step button
NextButton(step) == IF step = totalSteps THEN "none" ELSE "inline-block"

\* prevStep()
PrevStep ==
    /\ IF currentStep > 1
       THEN /\ currentStep' = currentStep - 1
            /\ nextDisplay' = NextButton(currentStep - 1)
       ELSE UNCHANGED <<currentStep, nextDisplay>>
    /\ stepError' = "none"
    /\ UNCHANGED <<filled, highlighted, notWizard>>

\* nextStep(): validateCurrentStep() looks up the section of currentStep;
\* with no such section querySelector gives null and the call raises
NextStep ==
    /\ IF currentStep \notin Steps
       THEN /\ stepError' = "TypeError"
            /\ UNCHANGED <<currentStep, highlighted, nextDisplay>>
       ELSE /\ stepError' = "none"
            /\ highlighted' = [highlighted EXCEPT ![currentStep] = ~filled[currentStep]]
            /\ IF filled[currentStep]
               THEN /\ currentStep' = currentStep + 1
                    /\ nextDisplay' = NextButton(currentStep + 1)
               ELSE UNCHANGED <<currentStep, nextDisplay>>
    /\ UNCHANGED <<filled, notWizard>>

\* the user types in, or empties, the required fields of a section; the
\* input event takes the mark off
EditSection(s) ==
    /\ filled' = [filled EXCEPT ![s] = ~@]
    /\ highlighted' = [highlighted EXCEPT ![s] = FALSE]
    /\ UNCHANGED <<currentStep, nextDisplay, stepError, notWizard>>

WizardNext ==
    \/ PrevStep
    \/ NextStep
    \/ \E s \in Steps : EditSection(s)

\* new DisclosureAssistant(), nothing typed yet
InitWizard == CheckerIdle /\ OthersInit

SpecWizard == InitWizard /\ [][WizardNext]_vars

\* C24: currentStep is one of 1..totalSteps after any prevStep and
\* nextStep calls.
C24_StepInRange == currentStep \in 1..totalSteps

\* ------------------------------------- background.js: the message listener
\* mutant of Cases: the switch has no case 'getDraft'
CasesWithoutGetDraft ==
    << [action |-> "generateDisclosure", operation |-> "generateDisclosureDocument"],
       [action |-> "saveDisclosure", operation |-> "saveDisclosureDocument"],
       [action |-> "exportDisclosure", operation |-> "exportDisclosureDocument"],
       [action |-> "getDisclosures", operation |-> "getStoredDisclosures"],
       [action |-> "getDisclosure", operation |-> "getStoredDisclosure"],
       [action |-> "deleteDisclosure", operation |-> "deleteDisclosure"],
       [action |-> "saveDraft", operation |-> "saveDraft"],
       [action |-> "clearAllData", operation |-> "clearAllData"],
       [action |-> "saveSettings", operation |-> "saveSettings"],
       [action |-> "getSettings", operation |-> "getSettings"] >>

\* the cases of switch (request.action) and the function each calls
Cases ==
    << [action |-> "generateDisclosure", operation |-> "generateDisclosureDocument"],
       [action |-> "saveDisclosure", operation |-> "saveDisclosureDocument"],
       [action |-> "exportDisclosure", operation |-> "exportDisclosureDocument"],
       [action |-> "getDisclosures", operation |-> "getStoredDisclosures"],
       [action |-> "getDisclosure", operation |-> "getStoredDisclosure"],
       [action |-> "deleteDisclosure", operation |-> "deleteDisclosure"],
       [action |-> "saveDraft", operation |-> "saveDraft"],
       [action |-> "getDraft", operation |-> "getDraft"],
       [action |-> "clearAllData", operation |-> "clearAllData"],
       [action |-> "saveSettings", operation |-> "saveSettings"],
       [action |-> "getSettings", operation |-> "getSettings"] >>

\* the listener called with request.action = action: the function whose
\* promise it waits for and its return value (true keeps the channel open),
\* or nothing called and undefined returned when no case matches
onMessage(action) ==
    LET hit == { i \in 1..Len(Cases) : Cases[i].action = action }
    IN IF hit = {}
       THEN [operation |-> "", returned |-> "undefined"]
       ELSE [operation |-> Cases[CHOOSE i \in hit : TRUE].operation,
             returned |-> "true"]

\* .then(result => sendResponse({ success: true, data: result }))
Then(responses, result) ==
    Append(responses, [success |-> TRUE, data |-> result])

\* .catch(error => sendResponse({ success: false, error: error.message }))
Catch(responses, error) ==
    Append(responses, [success |-> FALSE, error |-> error])

\* the 11 actions the listener is to answer
RecognisedActions ==
    { "generateDisclosure", "saveDisclosure", "exportDisclosure",
      "getDisclosures", "getDisclosure", "deleteDisclosure", "saveDraft",
      "getDraft", "clearAllData", "saveSettings", "getSettings" }

\* the actions a sender may name: those 11 and two others
SentActions == RecognisedActions \cup { "ping", "getTemplate" }

\* a message arrives and the listener runs to its return
Receive(m) ==
    /\ messages[m].pc = "unsent"
    /\ \E action \in SentActions :
          LET call == onMessage(action)
          IN messages' = [messages EXCEPT ![m] =
                 [action |-> action,
                  operation |-> call.operation,
                  pc |-> IF call.operation = "" THEN "ignored" ELSE "pending",
                  channel |-> IF call.returned = "true" THEN "open" ELSE "closed",
                  responses |-> << >>]]
    /\ UNCHANGED notListener

\* the operation's promise fulfils and the then-callback runs
Fulfil(m) ==
    /\ messages[m].pc = "pending"
    /\ messages' = [messages EXCEPT
                      ![m].pc = "responded",
                      ![m].channel = "closed",
                      ![m].responses = Then(@, messages[m].operation)]
    /\ UNCHANGED notListener

\* the operation's promise rejects and the catch-callback runs
Reject(m) ==
    /\ messages[m].pc = "pending"
    /\ messages' = [messages EXCEPT
                      ![m].pc = "responded",
                      ![m].channel = "closed",
                      ![m].responses = Catch(@, "message")]
    /\ UNCHANGED notListener

ListenerNext ==
    \/ \E m \in Messages : Receive(m)
    \/ \E m \in Messages : Fulfil(m)
    \/ \E m \in Messages : Reject(m)

\* the service worker with its listener registered, no message sent yet
InitListener == CheckerIdle /\ OthersInit

\* every operation's promise settles: the chrome.storage and
\* chrome.downloads calls the operations wait for answer or fail
SpecListener ==
    /\ InitListener
    /\ [][ListenerNext]_vars
    /\ \A m \in Messages : WF_vars(Fulfil(m) \/ Reject(m))

\* the message has its one response, of the shape of its outcome
AnsweredOnce(msg) ==
    /\ Len(msg.responses) = 1
    /\ \/ msg.responses[1].success /\ DOMAIN msg.responses[1] = {"success", "data"}
       \/ ~msg.responses[1].success /\ DOMAIN msg.responses[1] = {"success", "error"}

showLoading(show) == show

\* generateDocument() up to its await, validateCurrentStep() having
\* returned valid
GenerateDocument(o) ==
    /\ operations[o].pc = "idle"
    /\ \E valid \in BOOLEAN :
          IF valid
          THEN /\ loading' = showLoading(TRUE)
               /\ status' = "generating"
               /\ operations' = [operations EXCEPT
                                   ![o] = [kind |-> "generate", format |-> "",
                                           pc |-> "awaiting"]]
          ELSE /\ operations' = [operations EXCEPT
                                   ![o] = [kind |-> "generate", format |-> "",
                                           pc |-> "returned"]]
               /\ UNCHANGED <<loading, status>>
    /\ UNCHANGED <<toast, notIndicator>>

\* exportDocument(format) up to its await
ExportDocument(o) ==
    /\ operations[o].pc = "idle"
    /\ loading' = showLoading(TRUE)
    /\ status' = "exporting"
    /\ \E format \in Formats :
          operations' = [operations EXCEPT
                           ![o] = [kind |-> "export", format |-> format,
                                   pc |-> "awaiting"]]
    /\ UNCHANGED <<toast, notIndicator>>

\* the background's response arrives (or sendMessage rejects): the call
\* shows its toast and runs its finally block
Respond(o) ==
    /\ operations[o].pc = "awaiting"
    /\ \E success \in BOOLEAN :
          toast' = IF success THEN "success" ELSE "error"
    /\ loading' = showLoading(FALSE)
    /\ status' = "ready"
    /\ operations' = [operations EXCEPT ![o].pc = "returned"]
    /\ UNCHANGED notIndicator

IndicatorNext ==
    \/ \E o \in Operations : GenerateDocument(o)
    \/ \E o \in Operations : ExportDocument(o)
    \/ \E o \in Operations : Respond(o)

\* the popup open, no operation started
InitIndicator == CheckerIdle /\ OthersInit

SpecIndicator == InitIndicator /\ [][IndicatorNext]_vars

\* C26: while a generateDocument or exportDocument call is awaiting its
\* response the loading indicator is active.
C26_LoadingWhileAwaiting ==
    (\E o \in Operations : operations[o].pc = "awaiting") => loading

\* ---------------------------------------------- popup.js: the auto-save
\* mutant of clearTimeout: the timeout stays set
clearTimeoutNothing(set, id) == set

\* clearTimeout(id): the timeout of that id, if still set, is taken off
clearTimeout(set, id) == { t \in set : t.id # id }

\* setTimeout(callback, delay) called at time at: a timeout with a new id
setTimeout(set, id, at, delay) == set \cup { [id |-> id, due |-> at + delay] }

\* the user changes a form field: the input event runs handleAutoSave()
Input ==
    /\ Len(inputs) < MaxInputs
    /\ \A t \in timers : t.due > time
    /\ form' = form + 1
    /\ inputs' = Append(inputs, [at |-> time, enabled |-> autoSave, form |-> form + 1])
    /\ IF ~autoSave
       THEN UNCHANGED <<autoSaveTimer, timers>>
       ELSE LET id == Len(inputs) + 1
            IN /\ timers' = setTimeout(clearTimeout(timers, autoSaveTimer),
                                       id, time, AutoSaveDelay)
               /\ autoSaveTimer' = id
    /\ UNCHANGED <<autoSave, time, drafts, draft, notAutosave>>

\* a timeout is due: its callback runs collectFormData() and saveDraft(),
\* which sends the saveDraft message with this.formData
Timeout ==
    /\ \E t \in timers :
          /\ t.due = time
          /\ timers' = timers \ {t}
          /\ drafts' = Append(drafts, [at |-> time, data |-> form])
    /\ UNCHANGED <<autoSave, autoSaveTimer, time, form, inputs, draft, notAutosave>>

\* background.js saveDraft(data): the next message is handled and
\* chrome.storage.local.set({ draft: data }) takes effect
SaveDraft ==
    /\ draft.stored < Len(drafts)
    /\ draft' = [stored |-> draft.stored + 1, data |-> drafts[draft.stored + 1].data]
    /\ UNCHANGED <<autoSave, autoSaveTimer, timers, time, form, inputs, drafts,
                   notAutosave>>

\* the user checks or unchecks 'auto-save'
ToggleAutoSave ==
    /\ autoSave' = ~autoSave
    /\ UNCHANGED <<autoSaveTimer, timers, time, form, inputs, drafts, draft,
                   notAutosave>>

\* the times that may pass between two happenings, in ms
Elapses == { 400, 1000 }

\* time passes, up to the moment the next timeout is due
Pass ==
    /\ \E d \in Elapses \cup { t.due - time : t \in timers } :
          /\ d > 0
          /\ time + d <= MaxTime
          /\ \A t \in timers : time + d <= t.due
          /\ time' = time + d
    /\ UNCHANGED <<autoSave, autoSaveTimer, timers, form, inputs, drafts, draft,
                   notAutosave>>

AutoSaveNext ==
    \/ Input
    \/ Timeout
    \/ SaveDraft
    \/ ToggleAutoSave
    \/ Pass

\* the popup open with auto-save on and no timeout set
InitAutoSave == CheckerIdle /\ OthersInit

SpecAutoSave == InitAutoSave /\ [][AutoSaveNext]_vars

\* the input event closes a burst: it came with auto-save on and no later
\* such event came less than 1000 ms after it
ClosesBurst(i) ==
    /\ inputs[i].enabled
    /\ \A j \in 1..Len(inputs) :
          (j > i /\ inputs[j].enabled) => inputs[j].at - inputs[i].at >= 1000

FreshInclusive(entry, at, timeout) ==
    entry.present /\ at - entry.timestamp <= timeout

\* cached && Date.now() - cached.timestamp < timeout
Fresh(entry, at, timeout) ==
    entry.present /\ at - entry.timestamp < timeout

\* the timeouts callers pass, in ms
Timeouts == { 0, 2 }

\* cached(key, operation, timeout) up to its return or its await
Cached(c) ==
    /\ cachedCalls[c].pc = "idle"
    /\ \E key \in Keys, timeout \in Timeouts :
          LET entry == cache[key]
              hit == Fresh(entry, perfNow, timeout)
          IN cachedCalls' = [cachedCalls EXCEPT ![c] =
                 [pc |-> IF hit THEN "returned" ELSE "awaiting",
                  key |-> key, timeout |-> timeout, at |-> perfNow,
                  seen |-> entry, invoked |-> ~hit,
                  returned |-> IF hit THEN entry.data ELSE 0]]
    /\ UNCHANGED <<cache, perfNow, notCaching>>

\* operation() fulfils: the result is stored with the time of that moment
\* and returned
OperationFulfils(c) ==
    /\ cachedCalls[c].pc = "awaiting"
    /\ cache' = [cache EXCEPT ![cachedCalls[c].key] =
                    [present |-> TRUE, data |-> c, timestamp |-> perfNow]]
    /\ cachedCalls' = [cachedCalls EXCEPT ![c].pc = "returned", ![c].returned = c]
    /\ UNCHANGED <<perfNow, notCaching>>

\* operation() rejects: the await throws and cached(...) rejects
OperationRejects(c) ==
    /\ cachedCalls[c].pc = "awaiting"
    /\ cachedCalls' = [cachedCalls EXCEPT ![c].pc = "rejected"]
    /\ UNCHANGED <<cache, perfNow, notCaching>>

\* clearCache()
ClearCache ==
    /\ \E k \in Keys : cache[k].present
    /\ cache' = [k \in Keys |-> NoEntry]
    /\ UNCHANGED <<cachedCalls, perfNow, notCaching>>

\* a millisecond passes
PerfTick ==
    /\ perfNow < MaxPerfNow
    /\ perfNow' = perfNow + 1
    /\ UNCHANGED <<cache, cachedCalls, notCaching>>

CacheNext ==
    \/ \E c \in Calls : Cached(c)
    \/ \E c \in Calls : OperationFulfils(c)
    \/ \E c \in Calls : OperationRejects(c)
    \/ ClearCache
    \/ PerfTick

\* new PerformanceOptimizer(): an empty cache
InitCache == CheckerIdle /\ OthersInit

SpecCache == InitCache /\ [][CacheNext]_vars

\* C28: a cached(...) call invokes operation exactly when the cache held,
\* at the call, no entry for the key stored less than timeout ms before;
\* with such an entry it returns the entry's data; and the step in which
\* operation rejects leaves the cache as it is.
C28_CacheHitOrInvoke ==
    /\ [](\A c \in Calls :
             LET call == cachedCalls[c]
                 held == call.seen.present /\ call.at - call.seen.timestamp < call.timeout
             IN call.pc # "idle" =>
                   /\ call.invoked <=> ~held
                   /\ held => (call.pc = "returned" /\ call.returned = call.seen.data))
    /\ [][\A c \in Calls :
             (cachedCalls[c].pc = "awaiting" /\ cachedCalls'[c].pc = "rejected")
                => cache' = cache]_vars

\* C28 witness: a call was served, without invoking its operation, from
\* the entry another call had stored
C28_Witness ==
    \E c, d \in Calls :
        /\ c # d
        /\ cachedCalls[c].pc = "returned" /\ ~cachedCalls[c].invoked
        /\ cachedCalls[c].returned = d
        /\ cache[cachedCalls[c].key].present

\* ----------------------------------------------- performance.js: the logs
\* mutant of logPerformance: the oldest entry is not dropped
logPerformancePushOnly(list, entry) == Append(list, entry)

\* logPerformance(operation, metrics): what it leaves in
\* performanceMetrics.operations, entry being the new { operation, metrics,
\* timestamp }
logPerformance(list, entry) ==
    LET pushed == Append(list, entry)
    IN IF Len(pushed) > OperationsKept THEN Tail(pushed) ELSE pushed

\* logError(type, error): what it leaves in performanceMetrics.errors
logError(list, entry) ==
    LET pushed == Append(list, entry)
    IN IF Len(pushed) > ErrorsKept THEN Tail(pushed) ELSE pushed

\* the n-th entry logged to a list stands for its operation or type, its
\* metrics or error and its timestamp
Entry(n) == [n |-> n]

\* the state after one logPerformance call
LogPerformance ==
    /\ logged.operations < MaxLogPerformance
    /\ performanceMetrics' =
          [performanceMetrics EXCEPT
              !.operations = logPerformance(@, Entry(logged.operations + 1))]
    /\ logged' = [logged EXCEPT !.operations = @ + 1]

\* the state after one logError call
LogError ==
    /\ logged.errors < MaxLogError
    /\ performanceMetrics' =
          [performanceMetrics EXCEPT
              !.errors = logError(@, Entry(logged.errors + 1))]
    /\ logged' = [logged EXCEPT !.errors = @ + 1]

\* the load event: measurePageLoadPerformance logs 'Page Load'
PageLoad ==
    /\ ~pageLoaded
    /\ pageLoaded' = TRUE
    /\ LogPerformance
    /\ UNCHANGED <<pending, notMetrics>>

\* wrapAsync(operation, context) up to await operation()
WrapAsync ==
    /\ pending < MaxPending
    /\ pending' = pending + 1
    /\ UNCHANGED <<performanceMetrics, logged, pageLoaded, notMetrics>>

\* the operation fulfils: wrapAsync logs 'Async Operation' and returns
WrapAsyncFulfils ==
    /\ pending > 0
    /\ pending' = pending - 1
    /\ LogPerformance
    /\ UNCHANGED <<pageLoaded, notMetrics>>

\* the operation rejects: wrapAsync logs 'Async Operation Error' and
\* throws the error on
WrapAsyncRejects ==
    /\ pending > 0
    /\ pending' = pending - 1
    /\ LogError
    /\ UNCHANGED <<pageLoaded, notMetrics>>

\* the window's error or unhandledrejection event: the handler calls logError
WindowError ==
    /\ LogError
    /\ UNCHANGED <<pending, pageLoaded, notMetrics>>

MetricsNext ==
    \/ PageLoad
    \/ WrapAsync
    \/ WrapAsyncFulfils
    \/ WrapAsyncRejects
    \/ WindowError

\* new PerformanceOptimizer(): both lists empty
InitMetrics == CheckerIdle /\ OthersInit

SpecMetrics == InitMetrics /\ [][MetricsNext]_vars

\* the list holds the latest entries logged, at most keep of them, oldest
\* first
LatestInOrder(list, count, keep) ==
    /\ Len(list) = (IF count < keep THEN count ELSE keep)
    /\ \A i \in 1..Len(list) : list[i].n = count - Len(list) + i

\* C29: operations holds at most 100 entries and errors at most 50, each
\* list the most recent entries logged to it, in the order they were logged.
C29_LogsCapped ==
    /\ Len(performanceMetrics.operations) <= 100
    /\ Len(performanceMetrics.errors) <= 50
    /\ LatestInOrder(performanceMetrics.operations, logged.operations, 100)
    /\ LatestInOrder(performanceMetrics.errors, logged.errors, 50)

\* C29 witness: more than 100 operations and more than 50 errors were
\* logged, so both lists have dropped entries
C29_Witness ==
    /\ logged.operations > 100 /\ logged.errors > 50
    /\ performanceMetrics.operations[1].n > 1
    /\ performanceMetrics.errors[1].n > 1

\* --------------------------------------------- performance.js: AIService
\* mutant of GuardedMethods: collectInformation does not test the key
GuardedMethodsWithoutCollect ==
    { "understandSpecifications", "generateDraft", "generateSection",
      "reviewDocument", "optimizeContent", "produceFinalDocument" }

\* the methods that begin with if (!this.apiKey) throw new Error(...)
GuardedMethods ==
    { "understandSpecifications", "collectInformation", "generateDraft",
      "generateSection", "reviewDocument", "optimizeContent",
      "produceFinalDocument" }

\* the methods that go on to makeRequest
RequestMethods ==
    { "understandSpecifications", "collectInformation", "generateDraft",
      "generateSection", "reviewDocument", "optimizeContent",
      "produceFinalDocument" }

\* history.slice(-20)
SliceLast20(history) ==
    IF Len(history) <= 20 THEN history
    ELSE SubSeq(history, Len(history) - 19, Len(history))

\* the messages collectInformation builds from the history it is passed
CollectMessages(history) == <<"system">> \o SliceLast20(history) \o <<"user">>

\* saveSettings(provider, apiKey, model), the storage having answered
SaveSettings ==
    /\ \E key \in { "", "sk-1" } :
          /\ key # apiKey
          /\ apiKey' = key
    /\ UNCHANGED <<conversationHistory, requests, inflight, aiLast, notAi>>

\* a call of one of the seven methods, up to its throw or to the fetch of
\* makeRequest; collectInformation is passed no history, or the history the
\* service holds with the assistant's reply added
CallMethod ==
    /\ aiLast.n < MaxAiCalls
    /\ \E method \in RequestMethods,
          passed \in { << >>, conversationHistory \o <<"assistant">> } :
          IF method \in GuardedMethods /\ apiKey = ""
          THEN /\ aiLast' = [n |-> aiLast.n + 1, method |-> method,
                             outcome |-> "rejected",
                             error |-> "configure API key"]
               /\ UNCHANGED <<conversationHistory, requests, inflight>>
          ELSE /\ aiLast' = [n |-> aiLast.n + 1, method |-> method,
                             outcome |-> "awaiting", error |-> ""]
               /\ conversationHistory' =
                     IF method = "collectInformation"
                     THEN CollectMessages(passed)
                     ELSE conversationHistory
               /\ requests' = Append(requests, method)
               /\ inflight' = inflight + 1
    /\ UNCHANGED <<apiKey, notAi>>

\* fetch answers: makeRequest returns the content, or throws on a response
\* that is not ok
Response ==
    /\ inflight > 0
    /\ inflight' = inflight - 1
    /\ \E ok \in BOOLEAN :
          aiLast' = IF aiLast.outcome # "awaiting" THEN aiLast
                    ELSE [aiLast EXCEPT
                            !.outcome = IF ok THEN "fulfilled" ELSE "rejected",
                            !.error = IF ok THEN "" ELSE "API error"]
    /\ UNCHANGED <<apiKey, conversationHistory, requests, notAi>>

\* clearConversationHistory()
ClearConversationHistory ==
    /\ conversationHistory # << >>
    /\ conversationHistory' = << >>
    /\ UNCHANGED <<apiKey, requests, inflight, aiLast, notAi>>

AIServiceNext ==
    \/ SaveSettings
    \/ CallMethod
    \/ Response
    \/ ClearConversationHistory

\* new AIService(): no key, no history
InitAIService == CheckerIdle /\ OthersInit

SpecAIService == InitAIService /\ [][AIServiceNext]_vars

\* C30: a call of one of the seven methods made while apiKey is empty
\* fails with the 'configure API key' error, issues no HTTP request and
\* leaves conversationHistory as it is.
C30_NoKeyNoRequest ==
    [][(aiLast'.n # aiLast.n /\ apiKey = "")
          => /\ aiLast'.method \in
                   { "understandSpecifications", "collectInformation",
                     "generateDraft", "generateSection", "reviewDocument",
                     "optimizeContent", "produceFinalDocument" }
             /\ aiLast'.outcome = "rejected"
             /\ aiLast'.error = "configure API key"
             /\ requests' = requests
             /\ conversationHistory' = conversationHistory]_vars

\* C30 witness: a key was set and collectInformation left a history and a
\* request; the key was emptied and the next call failed for the missing
\* key, the history and the requests still as they were
C30_Witness ==
    /\ apiKey = ""
    /\ aiLast.n = 2 /\ aiLast.error = "configure API key"
    /\ conversationHistory = <<"system", "user">>
    /\ Len(requests) = 1

====
